---- MODULE Spec2Model ----
(***************************************************************************)
(* VectorQuantizer of model/VAE/quantizer.py as a state machine.           *)
(*                                                                         *)
(* The state is the constructed module (codebook, remap table, resolved    *)
(* unknown-index policy, re_embed, loss flags, the two 1x1 projections)    *)
(* and the record of the call in progress: its arguments, what it returned *)
(* or raised, and the caller's index tensor as it is left after the call.  *)
(* Tensors are records [shape, data] with data in row-major order; values  *)
(* are integers (a fixed-point reading of the floats), so every sum and    *)
(* product below is exact.  The loss is an exact rational <<num, den>>.    *)
(*                                                                         *)
(* Explored: codebooks of 1..MaxNe entries, remap tables of 1..MaxK        *)
(* entries (an empty table makes argmax and gather raise and is left out), *)
(* inputs of forward with batch 1 and two positions, index tensors of rank *)
(* 0 to 3.  A call is made on the idle module or, for the two round trips, *)
(* on the value the previous call returned.                                *)
(***************************************************************************)
EXTENDS Integers, Sequences, FiniteSets, TLC

\* ------------------------------------------------------------------ bounds
MaxNe == 2            \* codebook sizes 1..MaxNe
MaxK == 2             \* remap-table lengths 1..MaxK

CoordVals == {0, 1}                    \* coordinates of codebook vectors and inputs
EDims == {2}                           \* e_dim (= z_channels of the sampled modules)
BetaVals == {<<1, 4>>, <<3, 2>>}       \* beta as num/den
TempVals == {"None", "1.0", "0.5"}     \* the temp argument of forward

VARIABLES
    n_e, e_dim, beta, legacy,          \* quantizer.py:25-28
    embedding,                         \* quantizer.py:30, rows of the codebook
    remap,                             \* quantizer.py:33, TRUE iff remap is not None
    used, re_embed, unknown_index,     \* quantizer.py:35-44
    sane_index_shape,                  \* quantizer.py:46
    use_voxel, quant_conv, post_quant_conv,   \* quantizer.py:48-50
    last                               \* the call in progress / just returned

cfg == <<n_e, e_dim, beta, legacy, embedding, remap, used, re_embed,
         unknown_index, sane_index_shape, use_voxel, quant_conv, post_quant_conv>>
vars == <<n_e, e_dim, beta, legacy, embedding, remap, used, re_embed,
          unknown_index, sane_index_shape, use_voxel, quant_conv, post_quant_conv, last>>

\* ------------------------------------------------------------------ tensors
RECURSIVE Prod(_)
Prod(s) == IF s = <<>> THEN 1 ELSE Head(s) * Prod(Tail(s))

RECURSIVE SumSeq(_)
SumSeq(s) == IF s = <<>> THEN 0 ELSE Head(s) + SumSeq(Tail(s))

Tensor(shape, data) == [shape |-> shape, data |-> data]
NoTensor == Tensor(<<>>, <<>>)
Rank(t) == Len(t.shape)

\* row-major stride of axis i, and the coordinate of flat position j on axis i
Stride(shape, i) == Prod(SubSeq(shape, i + 1, Len(shape)))
Coord(j, shape, i) == ((j - 1) \div Stride(shape, i)) % shape[i]

\* torch.Tensor.permute / einops.rearrange with a pure axis permutation:
\* output axis i is input axis perm[i]
Permute(t, perm) ==
    LET nshape == [i \in 1..Len(perm) |-> t.shape[perm[i]]]
        src(j) == 1 + SumSeq([i \in 1..Len(perm) |->
                                 Coord(j, nshape, i) * Stride(t.shape, perm[i])])
    IN Tensor(nshape, [j \in 1..Len(t.data) |-> t.data[src(j)]])

\* reshape / view of a contiguous tensor: same data, new shape
Reshape(t, shape) == Tensor(shape, t.data)

\* the rows of t.view(-1, width)
Rows(t, width) ==
    [r \in 1..(Len(t.data) \div width) |-> SubSeq(t.data, (r - 1) * width + 1, r * width)]

RECURSIVE Flatten(_)
Flatten(rows) == IF rows = <<>> THEN <<>> ELSE Head(rows) \o Flatten(Tail(rows))

\* all tensors of a shape over a value set
TensorsOf(shape, vals) == {Tensor(shape, d) : d \in [1..Prod(shape) -> vals]}

\* the element of a singleton set; The({e(x) : x \in {v}}) is e with v computed once
The(S) == CHOOSE x \in S : TRUE

Dot(a, b) == SumSeq([i \in 1..Len(a) |-> a[i] * b[i]])

\* exact rationals <<num, den>>, den > 0
RatMul(a, b) == <<a[1] * b[1], a[2] * b[2]>>
RatAdd(a, b) == <<a[1] * b[2] + b[1] * a[2], a[2] * b[2]>>
RatEq(a, b) == a[1] * b[2] = b[1] * a[2]

\* ------------------------------------------------------------------ projections
\* torch.nn.Conv2d / Conv3d with kernel size 1 on a batched input (b, c_in, *spatial):
\* the same affine map at every position
Conv(layer, x) ==
    LET cin == x.shape[2]
        cout == Len(layer.weight)
        oshape == [i \in 1..Len(x.shape) |-> IF i = 2 THEN cout ELSE x.shape[i]]
        P == Prod(SubSeq(x.shape, 3, Len(x.shape)))
        at(j) == LET bi == (j - 1) \div (cout * P)
                     co == ((j - 1) \div P) % cout
                     p == (j - 1) % P
                 IN layer.bias[co + 1]
                    + SumSeq([ci \in 1..cin |->
                                 layer.weight[co + 1][ci] * x.data[(bi * cin + (ci - 1)) * P + p + 1]])
    IN Tensor(oshape, [j \in 1..Prod(oshape) |-> at(j)])

\* ------------------------------------------------------------------ index remapper
Outcome(status, ret, arg) == [status |-> status, ret |-> ret, arg |-> arg]

\* faulty variant: the assertion lets a rank-1 tensor through
RankOk_AllowsRankOne(inds) == Rank(inds) > 0

\* assert len(ishape)>1 (lines 54 and 68)
RankOk(inds) == Rank(inds) > 1

\* faulty variant: table positions counted from 1
FirstMatch_OneBased(x) ==
    IF \E p \in 1..Len(used) : used[p] = x
    THEN CHOOSE p \in 1..Len(used) : used[p] = x /\ \A q \in 1..(p - 1) : used[q] # x
    ELSE 0

\* match.argmax(-1) of line 58: the first table position holding x, 0 when none does
FirstMatch(x) ==
    IF \E p \in 1..Len(used) : used[p] = x
    THEN (CHOOSE p \in 1..Len(used) : used[p] = x /\ \A q \in 1..(p - 1) : used[q] # x) - 1
    ELSE 0

\* remap_to_used(inds); rnd[i] is the torch.randint draw that lands on position i
RemapToUsed(inds, rnd) ==
    IF ~RankOk(inds) THEN Outcome("AssertionError", NoTensor, inds)
    ELSE IF ~remap THEN Outcome("AttributeError", NoTensor, inds)
    ELSE
      LET ishape == inds.shape
          flat == Reshape(inds, <<ishape[1], Prod(ishape) \div ishape[1]>>)
          unknown(i) == \A p \in 1..Len(used) : used[p] # flat.data[i]
          new == [i \in 1..Len(flat.data) |->
                    IF unknown(i)
                    THEN (IF unknown_index.kind = "random" THEN rnd[i] ELSE unknown_index.value)
                    ELSE FirstMatch(flat.data[i])]
      IN Outcome("ok", Reshape(Tensor(flat.shape, new), ishape), inds)

\* whether t.reshape(shape) shares storage with t (torch returns a view whenever the
\* strides allow it): always for a contiguous layout, for an unchanged shape, and when t has
\* at most one axis of extent > 1 (axes are only split or squeezed).  `contiguous` = FALSE
\* stands for a layout whose axes cannot be merged in place, so that reshape copies.
ReshapeIsView(t, shape, contiguous) ==
    \/ contiguous
    \/ shape = t.shape
    \/ Cardinality({i \in 1..Len(t.shape) : t.shape[i] > 1}) <= 1

\* the "extra" policy as the code itself recognises it (line 71)
ExtraPolicy == remap /\ re_embed > Len(used)

\* faulty variant: the reserved slot is left as it is
ZeroExtra_Skipped(data, k) == data

\* inds[inds>=self.used.shape[0]] = 0 (line 72)
ZeroExtra(data, k) == [i \in 1..Len(data) |-> IF data[i] >= k THEN 0 ELSE data[i]]

\* unmap_to_all(inds); arg is the caller's tensor as the call leaves it
UnmapToAll(inds, contiguous) ==
    IF ~RankOk(inds) THEN Outcome("AssertionError", NoTensor, inds)
    ELSE IF ~remap THEN Outcome("AttributeError", NoTensor, inds)
    ELSE
      LET ishape == inds.shape
          k == Len(used)
          fshape == <<ishape[1], Prod(ishape) \div ishape[1]>>
          view == ReshapeIsView(inds, fshape, contiguous)
          zeroed == IF ExtraPolicy THEN ZeroExtra(inds.data, k) ELSE inds.data
          after == IF view THEN Tensor(ishape, zeroed) ELSE inds
      IN IF \E i \in 1..Len(zeroed) : zeroed[i] < 0 \/ zeroed[i] >= k
         THEN Outcome("RuntimeError", NoTensor, after)
         ELSE Outcome("ok",
                      Reshape(Tensor(fshape, [i \in 1..Len(zeroed) |-> used[zeroed[i] + 1]]), ishape),
                      after)

\* ------------------------------------------------------------------ matcher
\* one row of d (lines 94-96 and 161-163): |z|^2 + |e_j|^2 - 2 z.e_j for every entry j
Distances(z) ==
    [j \in 1..n_e |-> Dot(z, z) + Dot(embedding[j], embedding[j]) - 2 * Dot(z, embedding[j])]

\* faulty variant: the last position of the minimum
ArgMin_Last(d) ==
    (CHOOSE j \in 1..Len(d) :
        /\ \A i \in 1..Len(d) : d[j] <= d[i]
        /\ \A i \in (j + 1)..Len(d) : d[i] > d[j]) - 1

\* torch.argmin over one row: the first position of the minimum, counted from 0
ArgMin(d) ==
    (CHOOSE j \in 1..Len(d) :
        /\ \A i \in 1..Len(d) : d[j] <= d[i]
        /\ \A i \in 1..(j - 1) : d[i] > d[j]) - 1

\* torch.argmin(d, dim=1) over the rows of z.view(-1, e_dim)
MinEncodingIndices(z) ==
    LET rows == Rows(z, e_dim)
    IN [r \in 1..Len(rows) |-> ArgMin(Distances(rows[r]))]

\* self.embedding(indices): the looked-up rows, flattened (shape = indices.shape + (e_dim,))
Embed(idx) == Flatten([i \in 1..Len(idx) |-> embedding[idx[i] + 1]])

\* ------------------------------------------------------------------ loss
\* torch.mean((a - b) ** 2) as a rational
Mse(a, b) == <<SumSeq([i \in 1..Len(a) |-> (a[i] - b[i]) * (a[i] - b[i])]), Len(a)>>

\* faulty variant: beta on the term with the codebook vector detached, whatever legacy says
LossTerms_LegacyIgnored(z, z_q) ==
    << [weight |-> beta,     detached |-> "z_q", mse |-> Mse(z_q, z)],
       [weight |-> <<1, 1>>, detached |-> "z",   mse |-> Mse(z_q, z)] >>

\* the two terms of lines 104-109, in source order; `detached` names the operand under
\* .detach(), so the gradient of the term reaches only the other operand
LossTerms(z, z_q) ==
    IF ~legacy
    THEN << [weight |-> beta,     detached |-> "z_q", mse |-> Mse(z_q, z)],
            [weight |-> <<1, 1>>, detached |-> "z",   mse |-> Mse(z_q, z)] >>
    ELSE << [weight |-> <<1, 1>>, detached |-> "z_q", mse |-> Mse(z_q, z)],
            [weight |-> beta,     detached |-> "z",   mse |-> Mse(z_q, z)] >>

Loss(terms) == RatAdd(RatMul(terms[1].weight, terms[1].mse), RatMul(terms[2].weight, terms[2].mse))

\* ------------------------------------------------------------------ forward
FwdOutcome(status, z_in, argmin, z_lookup, z_q, terms, loss, indices) ==
    [status |-> status, z_in |-> z_in, argmin |-> argmin, z_lookup |-> z_lookup, z_q |-> z_q,
     terms |-> terms, loss |-> loss, indices |-> indices]
FwdError(status) ==
    FwdOutcome(status, NoTensor, NoTensor, NoTensor, NoTensor, <<>>, <<0, 1>>, NoTensor)

\* faulty variant: the assertion on temp is missing
FlagsAccepted_TempUnchecked(temp, rescale_logits, return_logits) ==
    /\ rescale_logits = FALSE
    /\ return_logits = FALSE

\* the three assertions of lines 82-84
FlagsAccepted(temp, rescale_logits, return_logits) ==
    /\ temp = "None" \/ temp = "1.0"
    /\ rescale_logits = FALSE
    /\ return_logits = FALSE

\* lines 122-133: the index tensor handed back (ret), from the flat argmin result idx (arg)
EmitIndices(idx, z_q_shape, is_voxel, rnd) ==
    LET flatIdx == Tensor(<<Len(idx)>>, idx)
        batch == z_q_shape[1]
        r == IF remap
             THEN RemapToUsed(Reshape(flatIdx, <<batch, Len(idx) \div batch>>), rnd)
             ELSE Outcome("ok", flatIdx, flatIdx)
        flat == IF remap THEN Reshape(r.ret, <<Len(idx), 1>>) ELSE r.ret
    IN IF r.status # "ok" THEN r
       ELSE IF sane_index_shape
            THEN Outcome("ok",
                         Reshape(flat,
                                 IF is_voxel
                                 THEN <<z_q_shape[1], z_q_shape[3], z_q_shape[4], z_q_shape[5]>>
                                 ELSE <<z_q_shape[1], z_q_shape[3], z_q_shape[4]>>),
                         flatIdx)
            ELSE Outcome("ok", flat, flatIdx)

\* line 112: z + (z_q - z).detach(), forward value
StraightThrough(zl, looked) ==
    Tensor(zl.shape, [i \in 1..Len(zl.data) |-> zl.data[i] + (looked.data[i] - zl.data[i])])

\* forward_quantizer(z, temp, rescale_logits, return_logits, is_voxel)
\*   z_in      the input in channels-last layout (line 88/90)
\*   argmin    min_encoding_indices as line 98 computes it
\*   z_lookup  the embedding lookup of line 99, put in channel-first layout
\*   z_q       the returned tensor, after the straight-through step of line 112
ForwardQuantizer(z, temp, rescale_logits, return_logits, is_voxel, rnd) ==
    IF ~FlagsAccepted(temp, rescale_logits, return_logits) THEN FwdError("AssertionError")
    ELSE IF Rank(z) # (IF is_voxel THEN 5 ELSE 4) THEN FwdError("EinopsError")
    ELSE
      LET toLast == IF is_voxel THEN <<1, 3, 4, 5, 2>> ELSE <<1, 3, 4, 2>>
          toFirst == IF is_voxel THEN <<1, 5, 2, 3, 4>> ELSE <<1, 4, 2, 3>>
      IN The({
           The({
             The({
               The({
                 IF ind.status # "ok" THEN FwdError(ind.status)
                 ELSE FwdOutcome("ok", zl, ind.arg, Permute(looked, toFirst), z_q, terms,
                                 Loss(terms), ind.ret)
                 : ind \in {EmitIndices(idx, z_q.shape, is_voxel, rnd)}})
               : terms \in {LossTerms(zl.data, looked.data)},
                 z_q \in {Permute(StraightThrough(zl, looked), toFirst)}})
             : looked \in {Tensor(zl.shape, Embed(idx))}})
           : zl \in {Permute(z, toLast)}, idx \in {MinEncodingIndices(Permute(z, toLast))}})

\* forward(z, temp, rescale_logits, return_logits, is_voxel)
Forward(z, temp, rescale_logits, return_logits, is_voxel, rnd) ==
    The({IF q.status # "ok" THEN q ELSE [q EXCEPT !.z_q = Conv(post_quant_conv, q.z_q)]
         : q \in {The({ForwardQuantizer(zp, temp, rescale_logits, return_logits, is_voxel, rnd)
                       : zp \in {Conv(quant_conv, z)}})}})

\* ------------------------------------------------------------------ lookups
NoShape == <<-1>>       \* shape=None

\* faulty variant: the tensor is left in channels-last layout
ToChannelFirst_Skipped(z_q) == z_q

\* z_q.permute(0, 3, 1, 2) of line 149
ToChannelFirst(z_q) == Permute(z_q, <<1, 4, 2, 3>>)

\* lines 138-141: the indices expanded to the full index space when a table is configured
ExpandIndices(indices, shape, contiguous) ==
    LET numel == Len(indices.data)
        two == <<shape[1], numel \div shape[1]>>
    IN IF ~remap THEN Outcome("ok", indices, indices)
       ELSE IF shape = NoShape THEN Outcome("TypeError", NoTensor, indices)
       ELSE IF numel % shape[1] # 0 THEN Outcome("RuntimeError", NoTensor, indices)
       ELSE The({Outcome(r.status,
                         IF r.status = "ok" THEN Reshape(r.ret, <<numel>>) ELSE NoTensor,
                         IF ReshapeIsView(indices, two, contiguous)
                         THEN Reshape(r.arg, indices.shape) ELSE indices)
                 : r \in {UnmapToAll(Reshape(indices, two), TRUE)}})

\* get_codebook_entry(indices, shape); arg is the caller's tensor as the call leaves it
GetCodebookEntry(indices, shape, contiguous) ==
    The({IF un.status # "ok" THEN un
         ELSE IF \E i \in 1..Len(un.ret.data) : un.ret.data[i] < 0 \/ un.ret.data[i] >= n_e
              THEN Outcome("IndexError", NoTensor, un.arg)
         ELSE The({IF shape = NoShape THEN Outcome("ok", z_q, un.arg)
                   ELSE IF Prod(shape) # Len(z_q.data) THEN Outcome("RuntimeError", NoTensor, un.arg)
                   ELSE IF Len(shape) # 4 THEN Outcome("RuntimeError", NoTensor, un.arg)
                   ELSE Outcome("ok", ToChannelFirst(Reshape(z_q, shape)), un.arg)
                   : z_q \in {Tensor(un.ret.shape \o <<e_dim>>, Embed(un.ret.data))}})
         : un \in {ExpandIndices(indices, shape, contiguous)}})

\* get_codebook_index(z, is_voxels); arg is the projected input in channels-last layout
GetCodebookIndex(z, is_voxels) ==
    The({IF Rank(zp) # (IF is_voxels THEN 5 ELSE 4) THEN Outcome("ValueError", NoTensor, NoTensor)
         ELSE The({Outcome("ok", Tensor(SubSeq(zl.shape, 1, Len(zl.shape) - 1),
                                        MinEncodingIndices(zl)), zl)
                   : zl \in {Permute(zp, IF is_voxels THEN <<1, 3, 4, 5, 2>> ELSE <<1, 3, 4, 2>>)}})
         : zp \in {Conv(quant_conv, z)}})

\* ------------------------------------------------------------------ construction
Vecs(d) == [1..d -> CoordVals]
Codebooks(d) == UNION {[1..n -> Vecs(d)] : n \in 1..MaxNe}
Tables(n) == UNION {[1..k -> 0..(n - 1)] : k \in 1..MaxK}

\* the codebook whose entry j has every coordinate equal to j - 1
RampCodebook(n, d) == [j \in 1..n |-> [i \in 1..d |-> j - 1]]

\* the unknown_index argument: "random", "extra" or an integer
UnknownArgs == {[kind |-> "random", value |-> 0], [kind |-> "extra", value |-> 0]}
               \cup {[kind |-> "int", value |-> v] : v \in 0..MaxK}

\* sampled parameters of the 1x1 projections (z_channels = 1)
ConvDiag(d) == [weight |-> [o \in 1..d |-> <<1>>], bias |-> [o \in 1..d |-> 0]]
ConvAnti(d) == [weight |-> [o \in 1..d |-> <<IF o % 2 = 1 THEN 1 ELSE -1>>],
                bias |-> [o \in 1..d |-> IF o % 2 = 1 THEN 0 ELSE 1]]
ConvAxis(d) == [weight |-> [o \in 1..d |-> <<IF o = 1 THEN 1 ELSE 0>>], bias |-> [o \in 1..d |-> 0]]
ConvPost(d) == [weight |-> <<[i \in 1..d |-> i]>>, bias |-> <<1>>]

\* sane_index_shape, use_voxel and the quant_conv sample, every pair of choices together
Layouts(d) == {<<FALSE, TRUE, ConvDiag(d)>>, <<TRUE, FALSE, ConvDiag(d)>>,
               <<FALSE, FALSE, ConvAnti(d)>>, <<TRUE, TRUE, ConvAnti(d)>>,
               <<FALSE, TRUE, ConvAxis(d)>>, <<TRUE, FALSE, ConvAxis(d)>>}

\* the sampled constructor calls: without a remap table, every codebook and loss setting;
\* with one, every table and unknown-index policy on the ramp codebooks
PlainArgs ==
    UNION {
      {[embedding |-> cb, e_dim |-> d, beta |-> b, legacy |-> lg, has_remap |-> FALSE,
        table |-> <<>>, unknown_index |-> [kind |-> "random", value |-> 0],
        sane_index_shape |-> ly[1], use_voxel |-> ly[2], quant_conv |-> ly[3],
        post_quant_conv |-> ConvPost(d)] :
          cb \in Codebooks(d), b \in BetaVals, lg \in BOOLEAN, ly \in Layouts(d)}
      : d \in EDims}

RemapArgs ==
    UNION {
      {[embedding |-> RampCodebook(Len(tn[2]), d), e_dim |-> d, beta |-> <<1, 4>>,
        legacy |-> TRUE, has_remap |-> TRUE, table |-> tn[1], unknown_index |-> ui,
        sane_index_shape |-> sn, use_voxel |-> FALSE, quant_conv |-> ConvDiag(d),
        post_quant_conv |-> ConvPost(d)] :
          tn \in UNION {Tables(n) \X {[j \in 1..n |-> j]} : n \in 1..MaxNe},
          ui \in UnknownArgs, sn \in BOOLEAN}
      : d \in EDims}

\* __init__ (lines 22-50)
Construct(a) ==
    /\ n_e = Len(a.embedding)
    /\ e_dim = a.e_dim
    /\ beta = a.beta
    /\ legacy = a.legacy
    /\ embedding = a.embedding
    /\ remap = a.has_remap
    /\ used = a.table
    /\ IF a.has_remap
       THEN IF a.unknown_index.kind = "extra"
            THEN /\ unknown_index = [kind |-> "int", value |-> Len(a.table)]
                 /\ re_embed = Len(a.table) + 1
            ELSE /\ unknown_index = a.unknown_index
                 /\ re_embed = Len(a.table)
       ELSE /\ unknown_index = [kind |-> "unset", value |-> 0]
            /\ re_embed = Len(a.embedding)
    /\ sane_index_shape = a.sane_index_shape
    /\ use_voxel = a.use_voxel
    /\ quant_conv = a.quant_conv
    /\ post_quant_conv = a.post_quant_conv

\* ------------------------------------------------------------------ calls
NoCall ==
    [op |-> "none", status |-> "none",
     z |-> NoTensor, temp |-> "None", rescale_logits |-> FALSE, return_logits |-> FALSE,
     is_voxel |-> FALSE,
     inds |-> NoTensor, contiguous |-> TRUE, shape |-> NoShape, src |-> NoTensor,
     z_in |-> NoTensor, argmin |-> NoTensor, z_lookup |-> NoTensor, z_q |-> NoTensor, terms |-> <<>>,
     loss |-> <<0, 1>>,
     ret |-> NoTensor, entry |-> NoTensor, arg |-> NoTensor]

Init ==
    /\ \E a \in PlainArgs \cup RemapArgs : Construct(a)
    /\ last = NoCall

z_channels == Len(quant_conv.weight[1])

\* inputs of forward / get_codebook_index: (batch, z_channels, *spatial)
ZShape == IF use_voxel THEN <<1, z_channels, 1, 1, 2>> ELSE <<1, z_channels, 1, 2>>
ZInputs == TensorsOf(ZShape, CoordVals)

\* the torch.randint draws of one call
RandomDraws(n) ==
    IF remap /\ unknown_index.kind = "random" THEN [1..n -> 0..(re_embed - 1)] ELSE {<<>>}

\* index tensors handed in by a caller: rank 0 to 3
IndexVals == 0..MaxK
IndexShapes == {<<>>, <<2>>, <<1, 2>>, <<2, 1>>}
IndexTensors == UNION {TensorsOf(s, IndexVals) : s \in IndexShapes}
                \cup {Tensor(<<1, 2, 2>>, <<v, 0, 0, v>>) : v \in IndexVals}
\* memory layouts that matter to reshape: a copy needs two axes to merge
LayoutsOf(t) == IF Cardinality({i \in 1..Len(t.shape) : t.shape[i] > 1}) > 1
                THEN BOOLEAN ELSE {TRUE}
EntryShapes == {NoShape} \cup {<<1, 1, 2, d>> : d \in EDims} \cup {<<1, 2, 2, d>> : d \in EDims}

ForwardCall ==
    /\ last.op = "none"
    /\ \E z \in ZInputs, temp \in TempVals, rl \in BOOLEAN, rt \in BOOLEAN, iv \in BOOLEAN :
         \E rnd \in RandomDraws(Prod(z.shape) \div z_channels) :
           \E r \in {Forward(z, temp, rl, rt, iv, rnd)} :
              last' = [NoCall EXCEPT !.op = "forward", !.status = r.status, !.z = z,
                          !.temp = temp, !.rescale_logits = rl, !.return_logits = rt,
                          !.is_voxel = iv, !.z_in = r.z_in, !.argmin = r.argmin,
                          !.z_lookup = r.z_lookup,
                          !.z_q = r.z_q, !.terms = r.terms, !.loss = r.loss,
                          !.ret = r.indices]
    /\ UNCHANGED cfg

GetCodebookIndexCall ==
    /\ last.op = "none"
    /\ \E z \in ZInputs, iv \in BOOLEAN :
         \E r \in {GetCodebookIndex(z, iv)} :
            last' = [NoCall EXCEPT !.op = "get_codebook_index", !.status = r.status, !.z = z,
                        !.is_voxel = iv, !.z_in = r.arg,
                        !.argmin = Tensor(<<Len(r.ret.data)>>, r.ret.data), !.ret = r.ret]
    /\ UNCHANGED cfg

\* a fresh call, or the call that hands back the indices forward has just returned
GetCodebookEntryCall ==
    /\ \/ /\ last.op = "none"
          /\ \E inds \in IndexTensors, shape \in EntryShapes : \E c \in LayoutsOf(inds) :
               \E r \in {GetCodebookEntry(inds, shape, c)} :
                  last' = [NoCall EXCEPT !.op = "get_codebook_entry", !.status = r.status,
                              !.inds = inds, !.contiguous = c, !.shape = shape,
                              !.entry = r.ret, !.arg = r.arg]
       \/ /\ last.op = "forward" /\ last.status = "ok"
          /\ \E r \in {GetCodebookEntry(last.ret, last.z_in.shape, TRUE)} :
                last' = [last EXCEPT !.op = "get_codebook_entry", !.status = r.status,
                            !.inds = last.ret, !.shape = last.z_in.shape,
                            !.entry = r.ret, !.arg = r.arg]
    /\ UNCHANGED cfg

RemapToUsedCall ==
    /\ last.op = "none"
    /\ \E inds \in IndexTensors :
         \E rnd \in RandomDraws(Len(inds.data)) :
           \E r \in {RemapToUsed(inds, rnd)} :
              last' = [NoCall EXCEPT !.op = "remap_to_used", !.status = r.status,
                          !.inds = inds, !.ret = r.ret, !.arg = r.arg]
    /\ UNCHANGED cfg

\* faulty variant: the zeroing of line 72 lands in the table buffer
UnmapToAllCall_ZeroesTable ==
    /\ last.op = "none"
    /\ \E inds \in IndexTensors : \E c \in LayoutsOf(inds) :
         \E r \in {UnmapToAll(inds, c)} :
            /\ last' = [NoCall EXCEPT !.op = "unmap_to_all", !.status = r.status,
                           !.inds = inds, !.contiguous = c, !.ret = r.ret, !.arg = r.arg]
            /\ used' = IF ExtraPolicy /\ RankOk(inds) THEN ZeroExtra(used, Len(used)) ELSE used
    /\ UNCHANGED <<n_e, e_dim, beta, legacy, embedding, remap, re_embed, unknown_index,
                   sane_index_shape, use_voxel, quant_conv, post_quant_conv>>

\* a fresh call, or the call that expands what remap_to_used has just returned
UnmapToAllCall ==
    /\ \/ /\ last.op = "none"
          /\ \E inds \in IndexTensors : \E c \in LayoutsOf(inds) :
               \E r \in {UnmapToAll(inds, c)} :
                  last' = [NoCall EXCEPT !.op = "unmap_to_all", !.status = r.status,
                              !.inds = inds, !.contiguous = c, !.ret = r.ret, !.arg = r.arg]
       \/ /\ last.op = "remap_to_used" /\ last.status = "ok"
          /\ \E r \in {UnmapToAll(last.ret, TRUE)} :
                last' = [NoCall EXCEPT !.op = "unmap_to_all", !.status = r.status,
                            !.inds = last.ret, !.src = last.inds, !.ret = r.ret,
                            !.arg = r.arg]
    /\ UNCHANGED cfg

\* the caller drops what the last call returned
Return ==
    /\ last.op # "none"
    /\ last' = NoCall
    /\ UNCHANGED cfg

Next ==
    \/ ForwardCall
    \/ GetCodebookIndexCall
    \/ GetCodebookEntryCall
    \/ RemapToUsedCall
    \/ UnmapToAllCall
    \/ Return

Spec == Init /\ [][Next]_vars

\* ------------------------------------------------------------------ properties
Returned(op) == last.op = op /\ last.status = "ok"
Positions(t) == 1..Len(t.data)
InTable(x) == \E p \in 1..Len(used) : used[p] = x
\* an unmap_to_all call fed with what remap_to_used returned
Chained == last.op = "unmap_to_all" /\ last.src # NoTensor
\* a get_codebook_entry call fed with what forward returned
RoundTrip == last.op = "get_codebook_entry" /\ last.z_in # NoTensor

\* squared Euclidean distance, summed coordinate by coordinate
SqDist(a, b) == SumSeq([i \in 1..Len(a) |-> (a[i] - b[i]) * (a[i] - b[i])])

\* C1: every index in the tensor forward returns lies in [0, re_embed), under every
\* configuration (no table; a table with "random", "extra" or an integer policy).
C1_IndexRange ==
    Returned("forward") => \A i \in Positions(last.ret) : last.ret.data[i] \in 0..(re_embed - 1)

\* C2: under the "extra" policy re_embed is the table length + 1 and the reserved slot is
\* the table length; remap_to_used sends every index present in the table to a compact
\* index in [0, k), and unmap_to_all sends that compact index back to the index.
C2_RemapRoundTrip ==
    /\ ExtraPolicy =>
          /\ re_embed = Len(used) + 1
          /\ unknown_index = [kind |-> "int", value |-> Len(used)]
    /\ (ExtraPolicy /\ Returned("remap_to_used")) =>
          \A i \in Positions(last.inds) :
             InTable(last.inds.data[i]) => last.ret.data[i] \in 0..(Len(used) - 1)
    /\ (ExtraPolicy /\ Chained) =>
          \A i \in Positions(last.src) :
             InTable(last.src.data[i]) =>
                /\ last.status = "ok"
                /\ last.inds.data[i] \in 0..(Len(used) - 1)
                /\ last.ret.data[i] = last.src.data[i]

C2_Witness ==
    /\ ExtraPolicy /\ Chained /\ last.status = "ok"
    /\ \E i \in Positions(last.src) : InTable(last.src.data[i]) /\ last.src.data[i] # 0
    /\ \E p, q \in 1..Len(used) : p # q /\ used[p] = used[q]

\* C3, as stated: under the "extra" policy unmap_to_all sends the reserved slot to
\* full-space index 0 and every other compact index c to the table entry at position c.
C3_ReservedToZero ==
    (ExtraPolicy /\ Returned("unmap_to_all")) =>
       \A i \in Positions(last.inds) :
          /\ last.inds.data[i] = Len(used) => last.ret.data[i] = 0
          /\ last.inds.data[i] < Len(used) => last.ret.data[i] = used[last.inds.data[i] + 1]

\* C3, amended: under the "extra" policy unmap_to_all sends the reserved slot to the table
\* entry at position 0 (which is full-space index 0 only when the table starts with 0) and
\* every other compact index c to the table entry at position c.
C3_ReservedToFirstEntry ==
    (ExtraPolicy /\ last.op = "unmap_to_all" /\ RankOk(last.inds)) =>
       /\ last.status = "ok"
       /\ \A i \in Positions(last.inds) :
             /\ last.inds.data[i] = Len(used) => last.ret.data[i] = used[1]
             /\ last.inds.data[i] < Len(used) => last.ret.data[i] = used[last.inds.data[i] + 1]

C3_Witness ==
    /\ ExtraPolicy /\ Returned("unmap_to_all") /\ used[1] # 0
    /\ \E i \in Positions(last.inds) : last.inds.data[i] = Len(used)
    /\ \E i \in Positions(last.inds) : last.inds.data[i] < Len(used)

C5_DefaultsOnly ==
    last.op = "forward" =>
       IF last.temp = "None" /\ ~last.rescale_logits /\ ~last.return_logits
       THEN last.status # "AssertionError"
       ELSE /\ last.status = "AssertionError"
            /\ last.z_q = NoTensor /\ last.ret = NoTensor /\ last.terms = <<>>

\* C5, amended: forward fails with an assertion error, returning nothing, whenever temp is
\* neither None nor 1.0, or rescale_logits or return_logits is not False; with temp None or
\* 1.0 and both other flags False it does not fail on these assertions.
C5_FlagAssertions ==
    last.op = "forward" =>
       IF last.temp \in {"None", "1.0"} /\ ~last.rescale_logits /\ ~last.return_logits
       THEN last.status # "AssertionError"
       ELSE /\ last.status = "AssertionError"
            /\ last.z_q = NoTensor /\ last.ret = NoTensor /\ last.terms = <<>>

C5_Witness ==
    Returned("forward") /\ last.temp = "1.0" /\ last.z_q # NoTensor /\ last.ret # NoTensor

C7_RoundTrip ==
    (RoundTrip /\ ~remap /\ ~last.is_voxel) =>
       /\ last.status = "ok"
       /\ last.entry = last.z_lookup
       /\ LET b == last.shape[1]
              h == last.shape[2]
              w == last.shape[3]
          IN /\ last.entry.shape = <<b, e_dim, h, w>>
             /\ Len(last.inds.data) = b * h * w
             /\ \A bi \in 0..(b - 1), c \in 0..(e_dim - 1), hi \in 0..(h - 1), wi \in 0..(w - 1) :
                   last.entry.data[((bi * e_dim + c) * h + hi) * w + wi + 1]
                      = embedding[last.inds.data[(bi * h + hi) * w + wi + 1] + 1][c + 1]

\* two positions with different entries whose coordinates differ
C7_Witness ==
    /\ RoundTrip /\ ~remap /\ last.status = "ok" /\ sane_index_shape
    /\ last.inds.data = <<1, 0>>
    /\ embedding[1][1] # embedding[1][2]
    /\ embedding[2] # embedding[1]

\* C8: the loss of forward is the commitment term (codebook vector detached) plus the
\* codebook term (encoder output detached); beta weighs the codebook term when legacy is
\* set and the commitment term otherwise; either way the value is (1 + beta) * mse(z, z_q).
C8_LossTerms ==
    Returned("forward") =>
       LET S == SumSeq([i \in Positions(last.z_in) |->
                          LET e == embedding[last.argmin.data[((i - 1) \div e_dim) + 1] + 1]
                                            [((i - 1) % e_dim) + 1]
                          IN (last.z_in.data[i] - e) * (last.z_in.data[i] - e)])
           N == Len(last.z_in.data)
           commitment == {t \in 1..Len(last.terms) : last.terms[t].detached = "z_q"}
           codebook == {t \in 1..Len(last.terms) : last.terms[t].detached = "z"}
       IN /\ Len(last.terms) = 2
          /\ Cardinality(commitment) = 1 /\ Cardinality(codebook) = 1
          /\ \A t \in 1..2 : RatEq(last.terms[t].mse, <<S, N>>)
          /\ \A t \in codebook : last.terms[t].weight = IF legacy THEN beta ELSE <<1, 1>>
          /\ \A t \in commitment : last.terms[t].weight = IF legacy THEN <<1, 1>> ELSE beta
          /\ RatEq(last.loss, <<(beta[2] + beta[1]) * S, beta[2] * N>>)

\* mse = 1 and beta = 1/4: the loss is 1.25
C8_Witness ==
    /\ Returned("forward") /\ beta = <<1, 4>> /\ ~legacy
    /\ RatEq(last.terms[1].mse, <<1, 1>>)
    /\ RatEq(last.loss, <<5, 4>>)

\* C9: no inference call (forward, get_codebook_index, get_codebook_entry, remap_to_used,
\* unmap_to_all) changes the codebook, the remap table, re_embed or the unknown-index policy.
C9_ParametersKept ==
    [][/\ embedding' = embedding
       /\ used' = used
       /\ re_embed' = re_embed
       /\ unknown_index' = unknown_index]_vars

\* an unmap_to_all call that did overwrite something: the caller's tensor
C9_Witness ==
    /\ ExtraPolicy /\ Returned("unmap_to_all")
    /\ last.arg # last.inds

\* C10: unmap_to_all, and get_codebook_entry with a remap table, leave the caller's index
\* tensor as it was, also when it holds the reserved slot of the "extra" policy.
C10_ArgumentKept ==
    (last.op \in {"unmap_to_all", "get_codebook_entry"} /\ remap) => last.arg = last.inds

====
